---- MODULE Spec2Model ----
(***************************************************************************)
(* Model of toml-comment: the TomlComment derive macro                     *)
(* (toml-comment-derive/src/lib.rs) and the value formatter                *)
(* (toml-comment/src/lib.rs).                                              *)
(*                                                                         *)
(* Text is modelled byte for byte: a string is a sequence of one-character *)
(* strings, so "[a.b]\n" is <<"[", "a", ".", "b", "]", "\n">>.             *)
(***************************************************************************)
EXTENDS Integers, Sequences, FiniteSets, TLC

VARIABLES decl, self, out, pc

vars == <<decl, self, out, pc>>

(***************************************************************************)
(* Bounds of the model.                                                    *)
(***************************************************************************)
MaxFields == 2

NL == "\n"

Digits == <<"0", "1", "2", "3", "4", "5", "6", "7", "8", "9">>

(* The byte order of the characters the model's map keys are made of. *)
CharOrder ==
    <<"K", "a", "b", "c", "d", "e", "f", "g", "h", "i", "j", "k", "l", "m",
      "n", "o", "p", "q", "r", "s", "t", "u", "v", "w", "x", "y", "z">>

(* What a panic (an `unwrap()` on an Err) leaves instead of an output. *)
Panic == <<"PANIC">>

(***************************************************************************)
(* String helpers of the Rust standard library.                            *)
(***************************************************************************)
RECURSIVE Join(_, _)
Join(parts, sep) ==
    IF parts = <<>> THEN <<>>
    ELSE IF Len(parts) = 1 THEN parts[1]
    ELSE parts[1] \o sep \o Join(Tail(parts), sep)

RECURSIVE Replace(_, _, _)
Replace(s, c, r) ==
    IF s = <<>> THEN <<>>
    ELSE (IF s[1] = c THEN r ELSE <<s[1]>>) \o Replace(Tail(s), c, r)

Contains(s, c) == \E i \in 1..Len(s) : s[i] = c

RECURSIVE NatToString(_)
NatToString(n) ==
    IF n < 10 THEN <<Digits[n + 1]>>
    ELSE NatToString(n \div 10) \o <<Digits[(n % 10) + 1]>>

IntToString(i) == IF i < 0 THEN <<"-">> \o NatToString(-i) ELSE NatToString(i)

(* f64's Display: the integral part, then "." and the fraction digits when
   the fraction is not zero (1.0 prints as "1", 0.75 as "0.75"). *)
FloatToString(f) ==
    IntToString(f.ip) \o (IF f.frac = <<>> THEN <<>> ELSE <<".">> \o f.frac)

push_str(o, s) == IF o = Panic THEN Panic ELSE o \o s

(***************************************************************************)
(* Byte-wise order of strings, the order of a BTreeMap<String, _>.         *)
(***************************************************************************)
Rank(c) == CHOOSE i \in 1..Len(CharOrder) : CharOrder[i] = c

RECURSIVE StrLess(_, _)
StrLess(s, t) ==
    IF t = <<>> THEN FALSE
    ELSE IF s = <<>> THEN TRUE
    ELSE IF s[1] = t[1] THEN StrLess(Tail(s), Tail(t))
    ELSE Rank(s[1]) < Rank(t[1])

RECURSIVE SortedKeys(_)
SortedKeys(K) ==
    IF K = {} THEN <<>>
    ELSE LET m == CHOOSE k \in K : \A o \in K \ {k} : StrLess(k, o)
         IN  <<m>> \o SortedKeys(K \ {m})

(***************************************************************************)
(* const LEAF_TYPES                                                        *)
(***************************************************************************)
LEAF_TYPES ==
    {"bool", "u8", "u16", "u32", "u64", "u128", "i8", "i16", "i32", "i64",
     "i128", "f32", "f64", "usize", "isize", "String"}

(* emit_docs with a plausible bug: an empty documentation line is dropped. *)
emit_docs_skips_empty(docs) ==
    LET kept == SelectSeq(docs, LAMBDA d : d # <<>>)
    IN  [i \in 1..Len(kept) |->
            [op |-> "push_str", s |-> <<"#">> \o kept[i] \o <<NL>>]]

(***************************************************************************)
(* fn emit_docs: one statement per documentation line.                     *)
(***************************************************************************)
emit_docs(docs) ==
    [i \in 1..Len(docs) |->
        IF docs[i] = <<>>
        THEN [op |-> "push_str", s |-> <<"#", NL>>]
        ELSE [op |-> "push_str", s |-> <<"#">> \o docs[i] \o <<NL>>]]

(***************************************************************************)
(* fn extract_docs: the string values of the `#[doc = "..."]` attributes,  *)
(* in order.                                                               *)
(***************************************************************************)
RECURSIVE extract_docs(_)
extract_docs(attrs) ==
    IF attrs = <<>> THEN <<>>
    ELSE LET attr == attrs[1]
             this == IF attr.path # "doc" THEN <<>>
                     ELSE IF attr.meta # "NameValue" THEN <<>>
                     ELSE IF ~attr.lit_str THEN <<>>
                     ELSE <<attr.value>>
         IN  this \o extract_docs(Tail(attrs))

(***************************************************************************)
(* fn has_toml_comment_attr                                                *)
(***************************************************************************)
has_toml_comment_attr(attrs, name) ==
    \E i \in 1..Len(attrs) :
        /\ attrs[i].path = "toml_comment"
        /\ attrs[i].meta = "List"
        /\ attrs[i].tokens = name

(* is_section_type with a plausible bug: the generic arguments are not
   looked at. *)
is_section_type_ignores_generics(ty) ==
    IF ~ty.path THEN FALSE
    ELSE ty.ident \notin LEAF_TYPES

(***************************************************************************)
(* fn is_section_type.  A syn::Type is [path, ident, args]: whether it is  *)
(* a Type::Path, the identifier of its last segment, and whether that      *)
(* segment has angle-bracketed arguments.                                  *)
(***************************************************************************)
is_section_type(ty) ==
    IF ~ty.path THEN FALSE
    ELSE IF ty.args THEN FALSE
    ELSE ty.ident \notin LEAF_TYPES

(***************************************************************************)
(* fn is_option_type                                                       *)
(***************************************************************************)
is_option_type(ty) ==
    IF ~ty.path THEN FALSE
    ELSE ty.ident = "Option"

(***************************************************************************)
(* fn fmt_value, over toml::Value.                                         *)
(***************************************************************************)
RECURSIVE fmt_value(_)
fmt_value(val) ==
    CASE val.t = "String" ->
            <<"\"">>
            \o Replace(Replace(val.s, "\\", <<"\\", "\\">>), "\"", <<"\\", "\"">>)
            \o <<"\"">>
      [] val.t = "Integer" -> IntToString(val.i)
      [] val.t = "Float" ->
            LET s == FloatToString(val)
            IN  IF Contains(s, ".") THEN s ELSE s \o <<".", "0">>
      [] val.t = "Boolean" ->
            IF val.b THEN <<"t", "r", "u", "e">> ELSE <<"f", "a", "l", "s", "e">>
      [] val.t = "Array" ->
            <<"[">>
            \o Join([i \in 1..Len(val.a) |-> fmt_value(val.a[i])], <<",", " ">>)
            \o <<"]">>
      [] val.t = "Table" ->
            LET pairs == [i \in 1..Len(val.e) |->
                            val.e[i].key \o <<" ", "=", " ">> \o fmt_value(val.e[i].val)]
            IN  <<"{", " ">> \o Join(pairs, <<",", " ">>) \o <<" ", "}">>
      [] val.t = "Datetime" -> val.s

(***************************************************************************)
(* toml::Value::try_from(&value), as the derive's generated code calls it. *)
(* The toml crate keeps a Table sorted by key (a BTreeMap); serializing a  *)
(* None is the error UnsupportedNone, which a struct's serializer turns    *)
(* into skipping that field.                                               *)
(***************************************************************************)
RECURSIVE try_from(_)
try_from(v) ==
    CASE v.k = "String" -> [t |-> "String", s |-> v.s]
      [] v.k = "Integer" -> [t |-> "Integer", i |-> v.i]
      [] v.k = "Float" -> [t |-> "Float", ip |-> v.ip, frac |-> v.frac]
      [] v.k = "Boolean" -> [t |-> "Boolean", b |-> v.b]
      [] v.k = "Datetime" -> [t |-> "Datetime", s |-> v.s]
      [] v.k = "Enum" -> [t |-> "String", s |-> v.variant]
      [] v.k = "Vec" -> [t |-> "Array", a |-> [i \in 1..Len(v.a) |-> try_from(v.a[i])]]
      [] v.k = "Map" ->
            LET keys == SortedKeys(DOMAIN v.m)
            IN  [t |-> "Table",
                 e |-> [i \in 1..Len(keys) |->
                          [key |-> keys[i], val |-> try_from(v.m[keys[i]])]]]
      [] v.k = "Struct" ->
            LET keys == SortedKeys({n \in DOMAIN v.f : v.f[n].k # "None"})
            IN  [t |-> "Table",
                 e |-> [i \in 1..Len(keys) |->
                          [key |-> keys[i], val |-> try_from(v.f[keys[i]])]]]
      [] v.k = "Some" -> try_from(v.v)
      [] v.k = "None" -> [t |-> "Err"]

(***************************************************************************)
(* derive_toml_comment: the pieces of one iteration of the loop over the   *)
(* fields.                                                                 *)
(***************************************************************************)
(* emit_blank with a plausible bug: the struct's documentation is not
   looked at. *)
emit_blank_ignores_docs(first_section, struct_docs) ==
    ~first_section

(* let emit_blank = !first_section || !struct_docs.is_empty(); *)
emit_blank(first_section, struct_docs) ==
    ~first_section \/ struct_docs # <<>>

(* section_path with a plausible bug: the prefix is dropped. *)
section_path_no_prefix(prefix, field_name_str) ==
    field_name_str

(* let section = if prefix.is_empty() { name } else { format!("{}.{}", prefix, name) }; *)
section_path(prefix, field_name_str) ==
    IF prefix = <<>> THEN field_name_str
    ELSE prefix \o <<".">> \o field_name_str

(* format!("[{}]\n", section) *)
section_header(section) == <<"[">> \o section \o <<"]", NL>>

(* format!("{} = {}\n", field_name_str, toml_comment::fmt_value(&val)) *)
assignment_line(field_name_str, val) ==
    field_name_str \o <<" ", "=", " ">> \o fmt_value(val) \o <<NL>>

(* section_tokens with a plausible bug: the blank line closes the section
   instead of opening it. *)
section_tokens_blank_after(field_name_str, field_docs, blank) ==
    <<[op |-> "let_section", name |-> field_name_str]>>
    \o emit_docs(field_docs)
    \o <<[op |-> "section", name |-> field_name_str]>>
    \o (IF blank THEN <<[op |-> "push_str", s |-> <<NL>>]>> ELSE <<>>)

(* The statements pushed to render_body for a section field. *)
section_tokens(field_name_str, field_docs, blank) ==
    <<[op |-> "let_section", name |-> field_name_str]>>
    \o (IF blank THEN <<[op |-> "push_str", s |-> <<NL>>]>> ELSE <<>>)
    \o emit_docs(field_docs)
    \o <<[op |-> "section", name |-> field_name_str]>>

(* option_tokens with a plausible bug: the documentation is pushed outside
   the `if`. *)
option_tokens_dangling_docs(field_name_str, field_docs) ==
    emit_docs(field_docs)
    \o <<[op |-> "if_some", name |-> field_name_str, doc_tokens |-> <<>>]>>

(* option_tokens with a plausible bug: the documentation is forgotten. *)
option_tokens_no_docs(field_name_str, field_docs) ==
    <<[op |-> "if_some", name |-> field_name_str, doc_tokens |-> <<>>]>>

(* The statement pushed to render_body for an Option field. *)
option_tokens(field_name_str, field_docs) ==
    <<[op |-> "if_some", name |-> field_name_str, doc_tokens |-> emit_docs(field_docs)]>>

(* leaf_tokens with a plausible bug: the documentation is forgotten. *)
leaf_tokens_no_docs(field_name_str, field_docs) ==
    <<[op |-> "value", name |-> field_name_str]>>

(* The statements pushed to render_body for any other field. *)
leaf_tokens(field_name_str, field_docs) ==
    emit_docs(field_docs) \o <<[op |-> "value", name |-> field_name_str]>>

(* field_branch with a plausible bug: the inline flag is not looked at. *)
field_branch_ignores_inline(force_inline, ty) ==
    IF is_section_type(ty) THEN "section"
    ELSE IF is_option_type(ty) THEN "option"
    ELSE "leaf"

(* Which of the three branches of the loop body a field takes. *)
field_branch(force_inline, ty) ==
    IF ~force_inline /\ is_section_type(ty) THEN "section"
    ELSE IF is_option_type(ty) THEN "option"
    ELSE "leaf"

(* One iteration: the statements the field adds, and first_section after it. *)
field_step(field, first_section, struct_docs) ==
    LET field_name_str == field.ident
        field_docs == extract_docs(field.attrs)
        force_inline == has_toml_comment_attr(field.attrs, "inline")
        branch == field_branch(force_inline, field.ty)
    IN  IF branch = "section"
        THEN [tokens |-> section_tokens(field_name_str, field_docs,
                                        emit_blank(first_section, struct_docs)),
              first_section |-> FALSE]
        ELSE IF branch = "option"
        THEN [tokens |-> option_tokens(field_name_str, field_docs),
              first_section |-> first_section]
        ELSE [tokens |-> leaf_tokens(field_name_str, field_docs),
              first_section |-> first_section]

RECURSIVE field_loop(_, _, _, _, _)
field_loop(named, i, first_section, struct_docs, render_body) ==
    IF i > Len(named) THEN render_body
    ELSE LET r == field_step(named[i], first_section, struct_docs)
         IN  field_loop(named, i + 1, r.first_section, struct_docs,
                        render_body \o r.tokens)

(***************************************************************************)
(* fn derive_toml_comment: the body of the generated `_render`.            *)
(***************************************************************************)
derive_toml_comment(input) ==
    LET struct_docs == extract_docs(input.attrs)
    IN  field_loop(input.named, 1, TRUE, struct_docs, emit_docs(struct_docs))

(***************************************************************************)
(* The program the model renders: the nested structs that derive           *)
(* TomlComment, the field declarations a root struct is made of, and the   *)
(* values a field of each declared type can hold.                          *)
(***************************************************************************)
Doc(text) == [path |-> "doc", meta |-> "NameValue", lit_str |-> TRUE,
              value |-> text, tokens |-> ""]

InlineAttr == [path |-> "toml_comment", meta |-> "List", lit_str |-> FALSE,
               value |-> <<>>, tokens |-> "inline"]

SerdeAttr == [path |-> "serde", meta |-> "List", lit_str |-> FALSE,
              value |-> <<>>, tokens |-> "default"]

(* A declared type: `full` is the type as written, the rest what syn gives. *)
Named(id) == [path |-> TRUE, ident |-> id, args |-> FALSE, full |-> id]

Generic(id, written) == [path |-> TRUE, ident |-> id, args |-> TRUE, full |-> written]

TupleType(written) == [path |-> FALSE, ident |-> "", args |-> FALSE, full |-> written]

Field(name, ty, attrs) == [ident |-> name, ty |-> ty, attrs |-> attrs]

Empty == [ident |-> "Empty", attrs |-> <<>>, named |-> <<>>]

Deep == [ident |-> "Deep", attrs |-> <<>>,
         named |-> <<Field(<<"z">>, Named("u16"), <<>>),
                     Field(<<"w">>, Named("Empty"), <<>>)>>]

Mid == [ident |-> "Mid", attrs |-> <<Doc(<<" ", "M">>)>>,
        named |-> <<Field(<<"p">>, Named("String"), <<Doc(<<" ", "p">>)>>),
                    Field(<<"n">>, Named("i64"), <<SerdeAttr>>),
                    Field(<<"t">>, Named("Datetime"), <<InlineAttr>>),
                    Field(<<"d">>, Named("Deep"), <<>>),
                    Field(<<"e">>, Named("Deep"), <<Doc(<<" ", "e">>)>>)>>]

(* The impl of TomlComment a field's type resolves to. *)
Item(id) ==
    CASE id = "Deep" -> Deep
      [] id = "Mid" -> Mid
      [] id = "Empty" -> Empty

Str(s) == [k |-> "String", s |-> s]

EmptyValue == [k |-> "Struct", ty |-> "Empty", f |-> <<>>]

DeepValue ==
    [k |-> "Struct", ty |-> "Deep",
     f |-> (<<"z">> :> [k |-> "Integer", i |-> 7]) @@ (<<"w">> :> EmptyValue)]

MidValue ==
    [k |-> "Struct", ty |-> "Mid",
     f |-> (<<"p">> :> Str(<<"x">>))
           @@ (<<"n">> :> [k |-> "Integer", i |-> -30])
           @@ (<<"t">> :> [k |-> "Datetime", s |-> <<"1", "9", "7", "9">>])
           @@ (<<"d">> :> DeepValue) @@ (<<"e">> :> DeepValue)]

MapOf(pairs) == [k |-> "Map", m |-> pairs]

Some(v) == [k |-> "Some", v |-> v]

None == [k |-> "None"]

(* The values of a declared type. *)
ValuesOf(full) ==
    CASE full = "String" -> {Str(<<"a", "\"", "\\">>)}
      [] full = "bool" -> {[k |-> "Boolean", b |-> TRUE], [k |-> "Boolean", b |-> FALSE]}
      [] full = "f64" -> {[k |-> "Float", ip |-> 1, frac |-> <<>>],
                          [k |-> "Float", ip |-> 0, frac |-> <<"7", "5">>]}
      [] full = "Vec<String>" ->
            {[k |-> "Vec", a |-> <<>>], [k |-> "Vec", a |-> <<Str(<<"a">>), Str(<<"b">>)>>]}
      [] full = "(u8, u8)" ->
            {[k |-> "Vec", a |-> <<[k |-> "Integer", i |-> 1], [k |-> "Integer", i |-> 2]>>]}
      [] full = "Option<String>" -> {None, Some(Str(<<"a">>))}
      [] full = "Option<Deep>" -> {None, Some(DeepValue)}
      [] full = "Option<LogLevel>" -> {None, Some([k |-> "Enum", variant |-> <<"W", "a", "r", "n">>])}
      [] full = "Option<BTreeMap<String, String>>" ->
            {None, Some(MapOf(<<"a">> :> Str(<<"1">>)))}
      [] full = "LogLevel" -> {[k |-> "Enum", variant |-> <<"I", "n", "f", "o">>]}
      [] full = "BTreeMap<String, String>" ->
            {MapOf(<<>>),
             MapOf((<<"b">> :> Str(<<"2">>)) @@ (<<"a">> :> Str(<<"1">>)))}
      [] full = "HashMap<String, String>" ->
            {MapOf(<<>>), MapOf(<<"K">> :> Str(<<"v">>))}
      [] full = "Deep" -> {DeepValue}
      [] full = "Mid" -> {MidValue}

(* The field declarations, apart from the name, a root struct draws from. *)
FieldKinds ==
    {[ty |-> Named("String"), attrs |-> <<Doc(<<" ", "s">>)>>],
     [ty |-> Named("bool"), attrs |-> <<Doc(<<>>)>>],
     [ty |-> Named("f64"), attrs |-> <<>>],
     [ty |-> Generic("Vec", "Vec<String>"), attrs |-> <<Doc(<<" ", "v">>)>>],
     [ty |-> TupleType("(u8, u8)"), attrs |-> <<>>],
     [ty |-> Generic("Option", "Option<String>"), attrs |-> <<Doc(<<" ", "o">>)>>],
     [ty |-> Generic("Option", "Option<Deep>"), attrs |-> <<Doc(<<" ", "t">>)>>],
     [ty |-> Generic("Option", "Option<LogLevel>"), attrs |-> <<Doc(<<" ", "l">>), InlineAttr>>],
     [ty |-> Generic("Option", "Option<BTreeMap<String, String>>"), attrs |-> <<>>],
     [ty |-> Named("LogLevel"), attrs |-> <<Doc(<<" ", "i">>), InlineAttr>>],
     [ty |-> Named("Deep"), attrs |-> <<InlineAttr>>],
     [ty |-> Generic("BTreeMap", "BTreeMap<String, String>"), attrs |-> <<Doc(<<" ", "m">>)>>],
     [ty |-> Generic("HashMap", "HashMap<String, String>"), attrs |-> <<>>],
     [ty |-> Named("Deep"), attrs |-> <<>>],
     [ty |-> Named("Mid"), attrs |-> <<Doc(<<" ", "n">>), Doc(<<>>)>>]}

(* The name of the root struct's i-th field. *)
FieldNames == <<"a", "b", "c", "f", "g", "h">>

RECURSIVE FieldLists(_)
FieldLists(n) ==
    IF n = 0 THEN {<<>>}
    ELSE LET shorter == FieldLists(n - 1)
         IN  shorter \cup
             {Append(fs, Field(<<FieldNames[Len(fs) + 1]>>, kind.ty, kind.attrs)) :
                 fs \in {l \in shorter : Len(l) = n - 1}, kind \in FieldKinds}

(* The documentation attributes a root struct draws from. *)
RootAttrs == {<<>>, <<Doc(<<" ", "R">>), Doc(<<>>)>>}

Roots ==
    {[ident |-> "Root", attrs |-> a, named |-> fs] :
        a \in RootAttrs, fs \in FieldLists(MaxFields)}

RECURSIVE FieldValues(_)
FieldValues(named) ==
    IF named = <<>> THEN {<<>>}
    ELSE {f @@ (named[1].ident :> v) :
            f \in FieldValues(Tail(named)), v \in ValuesOf(named[1].ty.full)}

(* The instances of a root struct. *)
Instances(input) ==
    {[k |-> "Struct", ty |-> input.ident, f |-> f] : f \in FieldValues(input.named)}

(***************************************************************************)
(* The generated `_render`: the statements of render_body, run in order on *)
(* `self` with the buffer `out` and the path `prefix`.  A field that is    *)
(* expanded as a section while its type has no `_render`, and an `unwrap`  *)
(* of a None, leave no output (Panic); neither happens to a program that   *)
(* compiles.                                                               *)
(***************************************************************************)
RECURSIVE run_body(_, _, _, _, _, _, _)
RECURSIVE _render(_, _, _, _)
run_body(input, body, i, this, o, prefix, section) ==
    IF i > Len(body) \/ o = Panic THEN o
    ELSE LET st == body[i]
         IN  CASE st.op = "push_str" ->
                    run_body(input, body, i + 1, this, push_str(o, st.s), prefix, section)
               [] st.op = "let_section" ->
                    run_body(input, body, i + 1, this, o, prefix,
                             section_path(prefix, st.name))
               [] st.op = "section" ->
                    LET child == this.f[st.name]
                    IN  run_body(input, body, i + 1, this,
                                 IF child.k # "Struct" THEN Panic
                                 ELSE _render(Item(child.ty), child,
                                              push_str(o, section_header(section)),
                                              section),
                                 prefix, section)
               [] st.op = "if_some" ->
                    LET field == this.f[st.name]
                        docs == run_body(input, st.doc_tokens, 1, this, o, prefix, section)
                        val == try_from(field)
                    IN  run_body(input, body, i + 1, this,
                                 IF field.k = "Some"
                                 THEN push_str(docs, assignment_line(st.name, val))
                                 ELSE o,
                                 prefix, section)
               [] st.op = "value" ->
                    LET val == try_from(this.f[st.name])
                    IN  run_body(input, body, i + 1, this,
                                 IF val.t = "Err" THEN Panic
                                 ELSE push_str(o, assignment_line(st.name, val)),
                                 prefix, section)

_render(input, this, o, prefix) ==
    run_body(input, derive_toml_comment(input), 1, this, o, prefix, <<>>)

(* fn to_commented_toml(&self) -> String *)
to_commented_toml(input, this) == _render(input, this, <<>>, <<>>)

(***************************************************************************)
(* The state machine: a root struct declaration, and the calls of its      *)
(* generated impl.                                                         *)
(***************************************************************************)
NoInstance == [k |-> "Unit"]

Init ==
    /\ decl \in Roots
    /\ self = NoInstance
    /\ out = <<>>
    /\ pc = "start"

(* value.to_commented_toml(), for any instance `value`. *)
ToCommentedToml ==
    /\ pc = "start"
    /\ \E value \in Instances(decl) :
          /\ self' = value
          /\ out' = to_commented_toml(decl, value)
    /\ pc' = "returned"
    /\ UNCHANGED decl

(* Self::default_toml(): Self::default().to_commented_toml(), the Default
   impl being the user's and returning any instance. *)
DefaultToml ==
    /\ pc = "start"
    /\ \E default \in Instances(decl) :
          /\ self' = default
          /\ out' = to_commented_toml(decl, default)
    /\ pc' = "returned"
    /\ UNCHANGED decl

Next == ToCommentedToml \/ DefaultToml

Spec == Init /\ [][Next]_vars

Returned == pc = "returned"

(***************************************************************************)
(* What the properties below are stated with: the lines of a text, the     *)
(* part of `out` that one field of the root struct contributed, and the    *)
(* shapes of a field as the documentation of the crate names them.         *)
(***************************************************************************)
(* The end of the line of s that starts at `start`: the position of its
   line break, or one past the end of s when it has none. *)
LineEnd(s, start) ==
    IF \E i \in start..Len(s) : s[i] = NL
    THEN CHOOSE i \in start..Len(s) :
            s[i] = NL /\ \A j \in start..(i - 1) : s[j] # NL
    ELSE Len(s) + 1

RECURSIVE LinesFrom(_, _)
LinesFrom(s, start) ==
    IF start > Len(s) THEN <<>>
    ELSE LET end == LineEnd(s, start)
         IN  <<SubSeq(s, start, end - 1)>> \o LinesFrom(s, end + 1)

(* The lines of s, without their line breaks. *)
Lines(s) == LinesFrom(s, 1)

IsBlank(line) == line = <<>>

IsHeader(line) == line # <<>> /\ line[1] = "["

IsComment(line) == line # <<>> /\ line[1] = "#"

RECURSIVE CommentBlock(_)
CommentBlock(docs) ==
    IF docs = <<>> THEN <<>>
    ELSE <<"#">> \o docs[1] \o <<NL>> \o CommentBlock(Tail(docs))

DocsOf(attrs) ==
    LET d == SelectSeq(attrs, LAMBDA a : a.path = "doc")
    IN  [i \in 1..Len(d) |-> d[i].value]

MarkedInline(field) == \E i \in 1..Len(field.attrs) : field.attrs[i] = InlineAttr

ScalarTypeNames ==
    {"bool", "String", "f32", "f64",
     "u8", "u16", "u32", "u64", "u128", "usize",
     "i8", "i16", "i32", "i64", "i128", "isize"}

DeclaredOptional(field) == field.ty.path /\ field.ty.ident = "Option"

DeclaredMap(field) == field.ty.path /\ field.ty.ident \in {"BTreeMap", "HashMap"}

DeclaredStructured(field) ==
    field.ty.path /\ ~field.ty.args /\ field.ty.ident \notin ScalarTypeNames

SectionField(field) == ~MarkedInline(field) /\ DeclaredStructured(field)

LeafField(field) ==
    ~MarkedInline(field) /\ field.ty.path /\ ~field.ty.args
    /\ field.ty.ident \in ScalarTypeNames

(* The root struct with only its first i fields, and without its i-th. *)
Prefix(input, i) == [input EXCEPT !.named = SubSeq(input.named, 1, i)]

Without(input, i) ==
    [input EXCEPT !.named = SubSeq(input.named, 1, i - 1)
                            \o SubSeq(input.named, i + 1, Len(input.named))]

(* The root struct with its i-th field declared as `field`, and the
   instance with that field holding `v`. *)
Redeclared(input, i, field) == [input EXCEPT !.named[i] = field]

Holding(this, name, v) == [this EXCEPT !.f[name] = v]

(* The text of a struct rendered under `prefix`, up to and including its
   i-th field. *)
UpTo(input, this, prefix, i) == _render(Prefix(input, i), this, <<>>, prefix)

(* The lengths of those texts for i from 0 to the number of fields, the
   (i+1)-th being the length up to the i-th field. *)
RECURSIVE CutsFrom(_, _, _, _)
CutsFrom(input, this, prefix, i) ==
    IF i > Len(input.named) THEN <<>>
    ELSE <<Len(UpTo(input, this, prefix, i))>> \o CutsFrom(input, this, prefix, i + 1)

Cuts(input, this, prefix) == CutsFrom(input, this, prefix, 0)

(* The part of `text`, a struct rendered, that its i-th field contributed,
   `cuts` being the Cuts of that struct. *)
SegmentAt(cuts, text, i) ==
    IF cuts[i] <= cuts[i + 1] /\ cuts[i + 1] <= Len(text)
    THEN SubSeq(text, cuts[i] + 1, cuts[i + 1])
    ELSE <<"?">>

StartsWith(s, p) == Len(p) <= Len(s) /\ SubSeq(s, 1, Len(p)) = p

EndsWith(s, p) == Len(p) <= Len(s) /\ SubSeq(s, Len(s) - Len(p) + 1, Len(s)) = p

FieldIndex == 1..Len(decl.named)

(* `name = <formatted value>` and its newline, for the value a field holds. *)
ValueLine(field, v) ==
    field.ident \o <<" ", "=", " ">> \o fmt_value(try_from(v)) \o <<NL>>

(* The declared type inside an Option. *)
Unwrapped(ty) ==
    CASE ty.full = "Option<String>" -> Named("String")
      [] ty.full = "Option<Deep>" -> Named("Deep")
      [] ty.full = "Option<LogLevel>" -> Named("LogLevel")
      [] ty.full = "Option<BTreeMap<String, String>>" ->
            Generic("BTreeMap", "BTreeMap<String, String>")

(***************************************************************************)
(* C1: an Optional field whose value is absent contributes nothing: the    *)
(* output is the output of the same struct declared without that field.    *)
(***************************************************************************)
C1_AbsentOptionalInvisible ==
    Returned =>
        LET cuts == Cuts(decl, self, <<>>) IN
        \A i \in FieldIndex :
            (DeclaredOptional(decl.named[i]) /\ self.f[decl.named[i].ident] = None)
                => /\ out = to_commented_toml(Without(decl, i), self)
                   /\ SegmentAt(cuts, out, i) = <<>>

C1_Witness ==
    /\ Returned
    /\ Len(decl.named) = 2
    /\ \E i \in FieldIndex :
          /\ DeclaredOptional(decl.named[i])
          /\ DocsOf(decl.named[i].attrs) # <<>>
          /\ self.f[decl.named[i].ident] = None
    /\ out # <<>>

(***************************************************************************)
(* C2 as stated: a present Optional field is emitted exactly as a field of *)
(* the unwrapped type holding the contained value would be.                *)
(***************************************************************************)
UnwrappedOutput(i, attrs) ==
    LET field == decl.named[i]
    IN  to_commented_toml(
            Redeclared(decl, i, Field(field.ident, Unwrapped(field.ty), attrs)),
            Holding(self, field.ident, self.f[field.ident].v))

C3_EmptyMapInvisible ==
    Returned =>
        \A i \in FieldIndex :
            (DeclaredMap(decl.named[i]) /\ DOMAIN self.f[decl.named[i].ident].m = {})
                => out = to_commented_toml(Without(decl, i), self)

(***************************************************************************)
(* C4: a non-empty map field with leaf values contributes its              *)
(* documentation block once and then one line `<key> = <formatted value>`  *)
(* per entry, in key order, with no line bearing the field's own name.     *)
(***************************************************************************)
RECURSIVE EntryLines(_, _)
EntryLines(m, keys) ==
    IF keys = <<>> THEN <<>>
    ELSE keys[1] \o <<" ", "=", " ">> \o fmt_value(try_from(m[keys[1]])) \o <<NL>>
         \o EntryLines(m, Tail(keys))

C4_MapEntriesAsLines ==
    Returned =>
        LET cuts == Cuts(decl, self, <<>>) IN
        \A i \in FieldIndex :
            LET field == decl.named[i]
                m == self.f[field.ident].m
            IN  (DeclaredMap(field) /\ DOMAIN m # {})
                    => SegmentAt(cuts, out, i) = CommentBlock(DocsOf(field.attrs))
                                    \o EntryLines(m, SortedKeys(DOMAIN m))

(***************************************************************************)
(* C5: within the rendering of one struct, a Section field is preceded by  *)
(* exactly one blank line if and only if it is not the struct's first      *)
(* Section field or the struct has documentation of its own.               *)
(***************************************************************************)
BlankRule(input, this, prefix, text) ==
    LET cuts == Cuts(input, this, prefix)
    IN
    \A i \in 1..Len(input.named) :
        SectionField(input.named[i]) =>
            LET seg == SegmentAt(cuts, text, i)
                expected == \/ \E j \in 1..(i - 1) : SectionField(input.named[j])
                            \/ DocsOf(input.attrs) # <<>>
            IN  /\ seg # <<>>
                /\ (seg[1] = NL) <=> expected
                /\ (seg[1] = NL) => (Len(seg) >= 2 /\ seg[2] # NL)

C5_BlankLineBeforeSection ==
    Returned =>
        LET cuts == Cuts(decl, self, <<>>) IN
        /\ BlankRule(decl, self, <<>>, out)
        /\ \A i \in FieldIndex :
              SectionField(decl.named[i]) =>
                  LET field == decl.named[i]
                      child == self.f[field.ident]
                      nested == _render(Item(field.ty.ident), child, <<>>, field.ident)
                  IN  /\ EndsWith(SegmentAt(cuts, out, i), nested)
                      /\ BlankRule(Item(field.ty.ident), child, field.ident, nested)

C5_Witness ==
    /\ Returned
    /\ Len(decl.named) = 2
    /\ \A i \in FieldIndex : SectionField(decl.named[i])
    /\ \E i \in FieldIndex : decl.named[i].ty.full = "Mid"
    /\ DocsOf(decl.attrs) = <<>>

(***************************************************************************)
(* C6 as stated: every field marked inline contributes its documentation   *)
(* block and exactly one line `name = <formatted value>`.                  *)
(***************************************************************************)
C6_InlineAlwaysOneLine ==
    Returned =>
        LET cuts == Cuts(decl, self, <<>>) IN
        \A i \in FieldIndex :
            LET field == decl.named[i]
                docs == DocsOf(field.attrs)
                seg == SegmentAt(cuts, out, i)
                ls == Lines(seg)
            IN  MarkedInline(field)
                    => /\ Len(ls) = Len(docs) + 1
                       /\ StartsWith(seg, CommentBlock(docs))
                       /\ StartsWith(ls[Len(ls)], field.ident \o <<" ", "=", " ">>)

(***************************************************************************)
(* C6 amended: a field marked inline contributes its documentation block   *)
(* and exactly one line `name = <formatted value>`, and no section header, *)
(* unless its declared type is Optional and its value is absent, when it   *)
(* contributes nothing.                                                    *)
(***************************************************************************)
C6_InlineOneLineUnlessAbsent ==
    Returned =>
        LET cuts == Cuts(decl, self, <<>>) IN
        \A i \in FieldIndex :
            LET field == decl.named[i]
                v == self.f[field.ident]
                seg == SegmentAt(cuts, out, i)
                ls == Lines(seg)
            IN  MarkedInline(field)
                    => IF DeclaredOptional(field) /\ v = None
                       THEN seg = <<>>
                       ELSE /\ seg = CommentBlock(DocsOf(field.attrs))
                                            \o ValueLine(field, v)
                            /\ Len(ls) = Len(DocsOf(field.attrs)) + 1
                            /\ \A j \in 1..Len(ls) : ~IsHeader(ls[j])

C6_Witness ==
    /\ Returned
    /\ \E i \in FieldIndex :
          /\ MarkedInline(decl.named[i])
          /\ decl.named[i].ty.full = "Deep"
    /\ \E i \in FieldIndex :
          /\ MarkedInline(decl.named[i])
          /\ decl.named[i].ty.full = "Option<LogLevel>"

(***************************************************************************)
(* C7: the header of a Section field at any depth is `[p]`, p the          *)
(* dot-joined names of the fields on the path from the root to it.         *)
(***************************************************************************)
RECURSIVE ExpectedHeaders(_, _, _)
ExpectedHeaders(input, path, i) ==
    IF i > Len(input.named) THEN <<>>
    ELSE LET field == input.named[i]
             here == Append(path, field.ident)
         IN  (IF SectionField(field)
              THEN <<(<<"[">> \o Join(here, <<".">>) \o <<"]">>)>>
                   \o ExpectedHeaders(Item(field.ty.ident), here, 1)
              ELSE <<>>)
             \o ExpectedHeaders(input, path, i + 1)

C7_HeaderIsDottedPath ==
    Returned =>
        SelectSeq(Lines(out), IsHeader) = ExpectedHeaders(decl, <<>>, 1)

C7_Witness ==
    /\ Returned
    /\ \E i \in FieldIndex : decl.named[i].ty.full = "Mid" /\ i = 2
    /\ LET ls == Lines(out)
       IN  \E j \in 1..Len(ls) : ls[j] = <<"[", "b", ".", "d", ".", "w", "]">>

(***************************************************************************)
(* C8: a top-level render is the root's documentation block followed by    *)
(* the fields' texts in declaration order; a Leaf field always contributes *)
(* its documentation block immediately followed by its one line.           *)
(***************************************************************************)
C8_DocsThenFieldsInOrder ==
    Returned =>
        LET cuts == Cuts(decl, self, <<>>)
        IN  /\ StartsWith(out, CommentBlock(DocsOf(decl.attrs)))
            /\ cuts[1] = Len(CommentBlock(DocsOf(decl.attrs)))
            /\ cuts[Len(decl.named) + 1] = Len(out)
            /\ \A i \in FieldIndex :
                  /\ StartsWith(out, UpTo(decl, self, <<>>, i))
                  /\ cuts[i] <= cuts[i + 1]
                  /\ LeafField(decl.named[i])
                        => SegmentAt(cuts, out, i)
                              = CommentBlock(DocsOf(decl.named[i].attrs))
                                \o ValueLine(decl.named[i], self.f[decl.named[i].ident])

C8_Witness ==
    /\ Returned
    /\ Len(DocsOf(decl.attrs)) = 2
    /\ Len(decl.named) = 2
    /\ LeafField(decl.named[1]) /\ DocsOf(decl.named[1].attrs) = << <<>> >>
    /\ LeafField(decl.named[2]) /\ DocsOf(decl.named[2].attrs) # <<>>
    /\ decl.named[1].ty # decl.named[2].ty

(***************************************************************************)
(* C9 as stated: the line after a blank line is a section header.          *)
(***************************************************************************)
C9_BlankThenHeader ==
    Returned =>
        LET ls == Lines(out)
        IN  \A j \in 1..Len(ls) :
                IsBlank(ls[j]) => j < Len(ls) /\ IsHeader(ls[j + 1])

(***************************************************************************)
(* C9 amended: a blank line only opens the text of a Section field: after  *)
(* it come the comment lines of that field's documentation, if any, and    *)
(* then the section header.  No blank line opens the text of a field of    *)
(* any other shape, and the document never ends with a blank line.         *)
(***************************************************************************)
C9_BlankOnlyOpensSection ==
    Returned =>
        LET cuts == Cuts(decl, self, <<>>) IN
        /\ LET ls == Lines(out)
           IN  \A j \in 1..Len(ls) :
                  IsBlank(ls[j])
                      => \E h \in (j + 1)..Len(ls) :
                            /\ IsHeader(ls[h])
                            /\ \A m \in (j + 1)..(h - 1) : IsComment(ls[m])
        /\ \A i \in FieldIndex :
              LET field == decl.named[i]
                  seg == SegmentAt(cuts, out, i)
                  ls == Lines(seg)
              IN  /\ ~SectionField(field) => \A j \in 1..Len(ls) : ~IsBlank(ls[j])
                  /\ SectionField(field) /\ StartsWith(seg, <<NL>>)
                        => StartsWith(seg,
                                      <<NL>> \o CommentBlock(DocsOf(field.attrs))
                                      \o <<"[">> \o field.ident \o <<"]", NL>>)
        /\ (out # <<>> => ~EndsWith(out, <<NL, NL>>) /\ out # <<NL>>)

C9_Witness ==
    /\ Returned
    /\ LET ls == Lines(out)
       IN  /\ \E j \in 1..(Len(ls) - 1) : IsBlank(ls[j]) /\ IsComment(ls[j + 1])
           /\ \E j \in 1..(Len(ls) - 1) : IsBlank(ls[j]) /\ IsHeader(ls[j + 1])

(***************************************************************************)
(* C10: whatever value it holds, a field not marked inline is expanded as  *)
(* a section exactly when its declared type is a named type without        *)
(* generic arguments that is not a scalar type; a generic type other than  *)
(* Optional or Map is one line `name = [e1, e2, ...]`.                     *)
(***************************************************************************)
ArrayLine(field, elems) ==
    field.ident \o <<" ", "=", " ", "[">>
    \o Join([j \in 1..Len(elems) |-> fmt_value(try_from(elems[j]))], <<",", " ">>)
    \o <<"]", NL>>

C10_SectionIffNamedNonScalar ==
    Returned =>
        LET cuts == Cuts(decl, self, <<>>) IN
        /\ out # Panic
        /\ \A i \in FieldIndex :
              LET field == decl.named[i]
                  seg == SegmentAt(cuts, out, i)
                  ls == Lines(seg)
              IN  /\ ~MarkedInline(field)
                        => ((\E j \in 1..Len(ls) : IsHeader(ls[j]))
                                <=> DeclaredStructured(field))
                  /\ (field.ty.args /\ ~DeclaredOptional(field) /\ ~DeclaredMap(field))
                        => seg = CommentBlock(DocsOf(field.attrs))
                                 \o ArrayLine(field, self.f[field.ident].a)
                  /\ (~field.ty.path /\ ~MarkedInline(field))
                        => seg = CommentBlock(DocsOf(field.attrs))
                                 \o ArrayLine(field, self.f[field.ident].a)

C10_Witness ==
    /\ Returned
    /\ \E i \in FieldIndex :
          /\ decl.named[i].ty.full = "Vec<String>"
          /\ Len(self.f[decl.named[i].ident].a) = 2
    /\ \E i \in FieldIndex : SectionField(decl.named[i])

====
